---------------------------- MODULE Spec2Model ----------------------------
(* Model of server.js (picture4): the pixel pipeline (thumbnail, colour     *)
(* profile, edge detection, stylization, compositing) and the two          *)
(* asynchronous request handlers that drive it.                            *)
(*                                                                         *)
(* A Jimp bitmap is a Node Buffer of bytes: every store into               *)
(* this.bitmap.data[i] truncates the number toward zero and keeps it       *)
(* modulo 256.  A pixel is the tuple <<r, g, b, a>> of its four bytes.     *)
EXTENDS Integers, Sequences, FiniteSets, TLC

VARIABLES
    pxIn, px, ppc,                      \* one pixel through the Stylizer callback
    photo, image, outline, ipc,         \* generateOutlineDrawing / generateColoredIllustration
    files, fileIdx, totals, pixelCount, profile, apc,   \* analyzeTemplateColors
    srcW, srcH, crop, thumb, tpc,       \* createThumbnail
    clock, templates, written, req      \* the request handlers

pixelVars   == <<pxIn, px, ppc>>
imageVars   == <<photo, image, outline, ipc>>
profileVars == <<files, fileIdx, totals, pixelCount, profile, apc>>
thumbVars   == <<srcW, srcH, crop, thumb, tpc>>
serverVars  == <<clock, templates, written, req>>
vars == <<pixelVars, imageVars, profileVars, thumbVars, serverVars>>

\* what each part of the program leaves alone
notPixel   == <<imageVars, profileVars, thumbVars, serverVars>>
notImage   == <<pixelVars, profileVars, thumbVars, serverVars>>
notProfile == <<pixelVars, imageVars, thumbVars, serverVars>>
notThumb   == <<pixelVars, imageVars, profileVars, serverVars>>
notServer  == <<pixelVars, imageVars, profileVars, thumbVars>>

--------------------------------------------------------------------------
(* Bounds of the model *)
MaxW == 5
MaxH == 5
MaxSpots == 1
MaxTemplateW == 2
MaxTemplateH == 2
MaxImages == 2
MaxSrcW == 8
MaxSrcH == 8
NumReqs == 3
MaxClock == 2

(* Program constants *)
EdgeThreshold == 100
BucketSize == 32
ThumbSize == 200

--------------------------------------------------------------------------
(* Byte arithmetic *)

\* Truncation toward zero of n/d (d > 0), the integer part a Buffer store keeps.
TruncDiv(n, d) == IF n >= 0 THEN n \div d ELSE -((-n) \div d)

\* Store of an integer into a Buffer byte: modulo 2^8.
ToUint8(n) == n % 256

Abs(n) == IF n < 0 THEN -n ELSE n

Clamp(n, lo, hi) == IF n < lo THEN lo ELSE IF n > hi THEN hi ELSE n

--------------------------------------------------------------------------
(* Stylizer callback, lines 290-307 *)

\* c + (c - avg) * 0.5 with avg = (r+g+b)/3 is the rational (9c - (r+g+b))/6.
\* Whenever that rational is an integer, r+g+b is a multiple of 3 and the
\* floating-point evaluation is exact; otherwise it is at least 1/6 away
\* from an integer, so truncating the rational is what the store does.
BoostSixths(c, p) == 9 * c - (p[1] + p[2] + p[3])

\* Math.min(255, c + (c - avg) * 0.5) stored into a byte: capped above only.
BoostChannel(c, p) ==
    LET n == BoostSixths(c, p)
    IN  ToUint8(TruncDiv(IF n > 255 * 6 THEN 255 * 6 ELSE n, 6))

\* lines 291-301: r, g, b are read first, then the three bytes are rewritten.
BoostPixel(p) == <<BoostChannel(p[1], p), BoostChannel(p[2], p), BoostChannel(p[3], p), p[4]>>

\* Math.round(v / 32) * 32 stored into a byte.  v/32 is exact, and
\* Math.round(x) = floor(x + 0.5), so Math.round(v/32) = (v + 16) \div 32.
PosterizeChannel(v) == ToUint8(((v + (BucketSize \div 2)) \div BucketSize) * BucketSize)

\* lines 304-306
PosterizePixel(p) == <<PosterizeChannel(p[1]), PosterizeChannel(p[2]), PosterizeChannel(p[3]), p[4]>>

StylizePixel(p) == PosterizePixel(BoostPixel(p))

--------------------------------------------------------------------------
(* One pixel through the Stylizer callback *)

Levels == {0, 50, 100, 111, 128, 144, 200, 239, 240, 255}
Alphas == {0, 128, 255}

Boost ==
    /\ ppc = "boost"
    /\ px' = BoostPixel(px)
    /\ ppc' = "posterize"
    /\ UNCHANGED <<pxIn, notPixel>>

Posterize ==
    /\ ppc = "posterize"
    /\ px' = PosterizePixel(px)
    /\ ppc' = "done"
    /\ UNCHANGED <<pxIn, notPixel>>

--------------------------------------------------------------------------
(* Images *)

Black == <<0, 0, 0, 255>>          \* 0x000000ff
White == <<255, 255, 255, 255>>    \* 0xffffffff
Transparent == <<0, 0, 0, 0>>      \* 0x00000000

\* Colours of the decoded photographs the model draws its inputs from.
Palette == {Black, White, <<111, 111, 111, 255>>, <<144, 144, 144, 255>>,
            <<200, 100, 50, 255>>}

Coords(w, h) == (0 .. w - 1) \X (0 .. h - 1)

RECURSIVE SubsetsUpTo(_, _)
\* the subsets of S of at most k elements
SubsetsUpTo(S, k) ==
    IF k = 0 THEN {{}}
    ELSE LET smaller == SubsetsUpTo(S, k - 1)
         IN  smaller \cup {T \cup {x} : T \in smaller, x \in S}

\* A decoded photograph: a background colour bg with the pixels spots of
\* another colour fg.
Photo(w, h, spots, bg, fg) ==
    [w |-> w, h |-> h, data |-> [p \in Coords(w, h) |-> IF p \in spots THEN fg ELSE bg]]

\* new Jimp(w, h, colour)
NewImage(w, h, colour) == [w |-> w, h |-> h, data |-> [p \in Coords(w, h) |-> colour]]

\* Jimp.intToRGBA(img.getPixelColor(x, y)) for a coordinate inside the bitmap
GetPixel(img, x, y) == img.data[<<x, y>>]

\* lines 251 / 315: the callback returns at once on the one-pixel border
OnBorder(img, x, y) == x = 0 \/ y = 0 \/ x = img.w - 1 \/ y = img.h - 1

\* lines 260-262 / 324-326
DiffX(img, x, y) ==
    LET l == GetPixel(img, x - 1, y)
        r == GetPixel(img, x + 1, y)
    IN  Abs(l[1] - r[1]) + Abs(l[2] - r[2]) + Abs(l[3] - r[3])

\* lines 264-266 / 328-330
DiffY(img, x, y) ==
    LET t == GetPixel(img, x, y - 1)
        b == GetPixel(img, x, y + 1)
    IN  Abs(t[1] - b[1]) + Abs(t[2] - b[2]) + Abs(t[3] - b[3])

\* a faulty threshold test that forgets the vertical difference
IsEdgeXOnly(img, x, y) == DiffX(img, x, y) > EdgeThreshold

\* lines 269 / 333
IsEdge(img, x, y) == DiffX(img, x, y) > EdgeThreshold \/ DiffY(img, x, y) > EdgeThreshold

\* The edge scan (lines 249-272 / 313-336): img is only read, and layer
\* receives setPixelColor(0x000000ff, x, y) at every edge pixel.
EdgeScan(img, layer) ==
    [layer EXCEPT !.data =
        [p \in Coords(img.w, img.h) |->
            IF ~OnBorder(img, p[1], p[2]) /\ IsEdge(img, p[1], p[2])
            THEN Black ELSE layer.data[p]]]

\* The stylization scan (lines 290-307) rewrites every pixel of img in place.
StylizeScan(img) == [img EXCEPT !.data = [p \in Coords(img.w, img.h) |-> StylizePixel(img.data[p])]]

\* Jimp's source-over blend of one overlay pixel s onto one base pixel d at
\* opacity 1, on bytes.  The overlay built at lines 310-336 holds only alpha 0
\* and alpha 255, for which the blend is exact on an opaque base.
SrcOver(s, d) ==
    LET a == d[4] + s[4] - (d[4] * s[4]) \div 255
        ch(i) == IF a = 0 THEN 0
                 ELSE (s[i] * s[4] * 255 + d[i] * d[4] * (255 - s[4])) \div (255 * a)
    IN  <<ch(1), ch(2), ch(3), a>>

\* a faulty composite with base and overlay exchanged
CompositeSwapped(base, over) ==
    [base EXCEPT !.data = [p \in Coords(base.w, base.h) |-> SrcOver(base.data[p], over.data[p])]]

\* image.composite(outline, 0, 0, {BLEND_SOURCE_OVER, 1, 1}), lines 339-343
Composite(base, over) ==
    [base EXCEPT !.data = [p \in Coords(base.w, base.h) |-> SrcOver(over.data[p], base.data[p])]]

NoImage == [w |-> 0, h |-> 0, data |-> <<>>]

--------------------------------------------------------------------------
(* generateOutlineDrawing, lines 241-282 *)

\* lines 243-246
OutlineRead ==
    /\ ipc = "read"
    /\ image' = photo
    /\ outline' = NewImage(photo.w, photo.h, White)
    /\ ipc' = "scan"
    /\ UNCHANGED <<photo, notImage>>

\* lines 249-272
OutlineScan ==
    /\ ipc = "scan"
    /\ outline' = EdgeScan(image, outline)
    /\ ipc' = "write"
    /\ UNCHANGED <<photo, image, notImage>>

\* lines 275-277
OutlineWrite ==
    /\ ipc = "write"
    /\ ipc' = "done"
    /\ UNCHANGED <<photo, image, outline, notImage>>

--------------------------------------------------------------------------
(* generateColoredIllustration, lines 285-353 *)

\* line 287
ColoredRead ==
    /\ ipc = "read"
    /\ image' = photo
    /\ ipc' = "stylize"
    /\ UNCHANGED <<photo, outline, notImage>>

\* lines 290-307
ColoredStylize ==
    /\ ipc = "stylize"
    /\ image' = StylizeScan(image)
    /\ ipc' = "detect"
    /\ UNCHANGED <<photo, outline, notImage>>

\* a variant of the edge scan that reads the unstylized photograph
ColoredDetectFromPhoto ==
    /\ ipc = "detect"
    /\ outline' = EdgeScan(photo, NewImage(image.w, image.h, Transparent))
    /\ ipc' = "composite"
    /\ UNCHANGED <<photo, image, notImage>>

\* lines 310-336: the scan reads image, the buffer the stylization rewrote
ColoredDetect ==
    /\ ipc = "detect"
    /\ outline' = EdgeScan(image, NewImage(image.w, image.h, Transparent))
    /\ ipc' = "composite"
    /\ UNCHANGED <<photo, image, notImage>>

\* lines 339-343
ColoredComposite ==
    /\ ipc = "composite"
    /\ image' = Composite(image, outline)
    /\ ipc' = "write"
    /\ UNCHANGED <<photo, outline, notImage>>

\* lines 346-348
ColoredWrite ==
    /\ ipc = "write"
    /\ ipc' = "done"
    /\ UNCHANGED <<photo, image, outline, notImage>>

--------------------------------------------------------------------------
(* analyzeTemplateColors, lines 177-213 *)

\* Colours and sizes of the template images the model draws its inputs from.
TemplatePalette == {<<10, 20, 255, 255>>, <<11, 23, 0, 128>>}

TemplateImages ==
    UNION {
        { [w |-> w, h |-> h,
           data |-> [p \in Coords(w, h) |-> IF p = <<0, 0>> THEN cs[1] ELSE cs[2]]] :
             cs \in TemplatePalette \X TemplatePalette }
        : w \in 1 .. MaxTemplateW, h \in 1 .. MaxTemplateH }

SeqsUpTo(S, n) == UNION {[1 .. k -> S] : k \in 0 .. n}

RECURSIVE SumOver(_, _, _)
\* the sum of channel i over the pixels ps of img
SumOver(img, ps, i) ==
    IF ps = {} THEN 0
    ELSE LET p == CHOOSE q \in ps : TRUE
         IN  img.data[p][i] + SumOver(img, ps \ {p}, i)

\* lines 186-195: one full scan adds every pixel's r, g, b to the totals
ChannelSum(img, i) == SumOver(img, Coords(img.w, img.h), i)

\* a faulty average that uses Math.floor
RoundDivFloor(total, count) ==
    IF count = 0 THEN "NaN" ELSE total \div count

\* Math.round(total / count) for total >= 0, count > 0: floor(total/count + 1/2).
\* The quotient is exact at every half-integer and otherwise at least
\* 1/(2 count) away from one.  0 / 0 is NaN and Math.round(NaN) is NaN.
RoundDiv(total, count) ==
    IF count = 0 THEN "NaN" ELSE (2 * total + count) \div (2 * count)

--------------------------------------------------------------------------
(* createThumbnail, lines 216-238 *)

Min(a, b) == IF a < b THEN a ELSE b

\* (a - b) / 2 as the JavaScript number it is: a rational num/den, not floored
Half(n) == [num |-> n, den |-> 2]

NoCrop == [x |-> Half(0), y |-> Half(0), w |-> 0, h |-> 0]

--------------------------------------------------------------------------
(* The request handlers, lines 60-174 *)

Reqs == 1 .. NumReqs

IdleReq == [kind |-> "none", pc |-> "idle", id |-> 0, go |-> FALSE, gc |-> FALSE,
            photoOk |-> FALSE, outlineFail |-> "none", coloredRan |-> FALSE,
            status |-> 0]

\* POST /api/templates up to its first await, lines 60-83.  valid is the
\* check of line 65; the id is Date.now() at line 70.
PostTemplate(r, valid) ==
    /\ req[r].pc = "idle"
    /\ req' = [req EXCEPT ![r] =
                 IF valid
                 THEN [@ EXCEPT !.kind = "template", !.pc = "thumb", !.id = clock]
                 ELSE [@ EXCEPT !.kind = "template", !.pc = "done", !.status = 400]]
    /\ UNCHANGED <<clock, templates, written, notServer>>

\* createThumbnail resumes, lines 83 and 218-233: it writes
\* thumbnail-<templateId>.jpg, or throws and the handler answers 500.
ThumbnailDone(r, ok) ==
    /\ req[r].pc = "thumb"
    /\ IF ok
       THEN /\ written' = written \cup {<<"thumbnail", req[r].id, r>>}
            /\ req' = [req EXCEPT ![r].pc = "analyze"]
       ELSE /\ written' = written
            /\ req' = [req EXCEPT ![r].pc = "done", ![r].status = 500]
    /\ UNCHANGED <<clock, templates, notServer>>

\* analyzeTemplateColors resumes, lines 86-103: templates.push(template)
AnalyzeDone(r, ok) ==
    /\ req[r].pc = "analyze"
    /\ IF ok
       THEN /\ templates' = Append(templates, [_id |-> req[r].id, owner |-> r])
            /\ req' = [req EXCEPT ![r].pc = "done", ![r].status = 201]
       ELSE /\ templates' = templates
            /\ req' = [req EXCEPT ![r].pc = "done", ![r].status = 500]
    /\ UNCHANGED <<clock, written, notServer>>

HasTemplate(tid) == \E i \in 1 .. Len(templates) : templates[i]._id = tid

\* templates.findIndex(t => t._id === templateId), line 114
FindIndex(tid) == CHOOSE i \in 1 .. Len(templates) :
                     /\ templates[i]._id = tid
                     /\ \A j \in 1 .. i - 1 : templates[j]._id # tid

\* templates.splice(templateIndex, 1), line 127
Splice(seq, i) == [j \in 1 .. Len(seq) - 1 |-> IF j < i THEN seq[j] ELSE seq[j + 1]]

\* DELETE /api/templates/:id, lines 111-134 (synchronous)
DeleteTemplate(tid) ==
    /\ HasTemplate(tid)
    /\ templates' = Splice(templates, FindIndex(tid))
    /\ UNCHANGED <<clock, written, req, notServer>>

\* where the convert handler goes after the outline branch, lines 163-169
AfterOutline(q) ==
    IF q.gc THEN [q EXCEPT !.pc = "colored", !.coloredRan = TRUE]
    ELSE [q EXCEPT !.pc = "done", !.status = 200]

\* POST /api/convert up to its first await, lines 137-158.  valid is the
\* check of line 142; the timestamp is Date.now() at line 153.
PostConvert(r, valid, tid, go, gc, photoOk) ==
    /\ req[r].pc = "idle"
    /\ req' = [req EXCEPT ![r] =
                 IF ~valid
                 THEN [@ EXCEPT !.kind = "convert", !.pc = "done", !.status = 400]
                 ELSE IF ~HasTemplate(tid)
                 THEN [@ EXCEPT !.kind = "convert", !.pc = "done", !.status = 404]
                 ELSE LET q == [@ EXCEPT !.kind = "convert", !.id = clock, !.go = go,
                                         !.gc = gc, !.photoOk = photoOk]
                      IN  IF go THEN [q EXCEPT !.pc = "outline"] ELSE AfterOutline(q)]
    /\ UNCHANGED <<clock, templates, written, notServer>>

\* generateOutlineDrawing resumes, lines 158-159 and 243-277.  It throws when
\* the photo does not decode or when the write fails; the handler's single
\* try block then answers 500 (lines 170-173).
OutlineDone(r, writeOk) ==
    /\ req[r].pc = "outline"
    /\ IF req[r].photoOk /\ writeOk
       THEN /\ written' = written \cup {<<"outline", req[r].id, r>>}
            /\ req' = [req EXCEPT ![r] = AfterOutline(@)]
       ELSE /\ written' = written
            /\ req' = [req EXCEPT ![r].pc = "done", ![r].status = 500,
                                  ![r].outlineFail =
                                      IF req[r].photoOk THEN "write" ELSE "decode"]
    /\ UNCHANGED <<clock, templates, notServer>>

\* generateColoredIllustration resumes, lines 165-169 and 287-348
ColoredDone(r, writeOk) ==
    /\ req[r].pc = "colored"
    /\ IF req[r].photoOk /\ writeOk
       THEN /\ written' = written \cup {<<"colored", req[r].id, r>>}
            /\ req' = [req EXCEPT ![r].pc = "done", ![r].status = 200]
       ELSE /\ written' = written
            /\ req' = [req EXCEPT ![r].pc = "done", ![r].status = 500]
    /\ UNCHANGED <<clock, templates, notServer>>

\* a millisecond passes: Date.now() grows
Tick ==
    /\ clock < MaxClock
    /\ clock' = clock + 1
    /\ UNCHANGED <<templates, written, req, notServer>>

ServerNext ==
    \/ Tick
    \/ \E r \in Reqs, valid \in BOOLEAN : PostTemplate(r, valid)
    \/ \E r \in Reqs, ok \in BOOLEAN : ThumbnailDone(r, ok)
    \/ \E r \in Reqs, ok \in BOOLEAN : AnalyzeDone(r, ok)
    \/ \E tid \in 0 .. MaxClock : DeleteTemplate(tid)
    \/ \E r \in Reqs, valid \in BOOLEAN, tid \in 0 .. MaxClock :
          \E go \in BOOLEAN, gc \in BOOLEAN, photoOk \in BOOLEAN :
              PostConvert(r, valid, tid, go, gc, photoOk)
    \/ \E r \in Reqs, ok \in BOOLEAN : OutlineDone(r, ok)
    \/ \E r \in Reqs, ok \in BOOLEAN : ColoredDone(r, ok)

\* the server after start-up: no template, no request
ServerInit ==
    /\ clock = 0
    /\ templates = <<>>
    /\ written = {}
    /\ req = [r \in Reqs |-> IdleReq]
    /\ pxIn = <<>> /\ px = <<>> /\ ppc = "off"
    /\ photo = NoImage /\ image = NoImage /\ outline = NoImage /\ ipc = "off"
    /\ files = <<>> /\ fileIdx = 0 /\ totals = <<0, 0, 0>> /\ pixelCount = 0 /\ profile = "none" /\ apc = "off"
    /\ srcW = 0 /\ srcH = 0 /\ crop = NoCrop /\ thumb = <<0, 0>> /\ tpc = "off"

SpecServer == ServerInit /\ [][ServerNext]_vars

--------------------------------------------------------------------------
(* analyzeTemplateColors, the steps *)

\* lines 182-196: Jimp.read of the next file, then the scan over all its pixels
ProfileScan ==
    /\ apc = "scan"
    /\ fileIdx < Len(files)
    /\ LET img == files[fileIdx + 1]
       IN  /\ totals' = <<totals[1] + ChannelSum(img, 1), totals[2] + ChannelSum(img, 2),
                          totals[3] + ChannelSum(img, 3)>>
           /\ pixelCount' = pixelCount + img.w * img.h
    /\ fileIdx' = fileIdx + 1
    /\ UNCHANGED <<files, profile, apc, notProfile>>

\* lines 199-208: no check of pixelCount precedes the division
ProfileAverage ==
    /\ apc = "scan"
    /\ fileIdx = Len(files)
    /\ profile' = [dominantColor |-> <<RoundDiv(totals[1], pixelCount),
                                       RoundDiv(totals[2], pixelCount),
                                       RoundDiv(totals[3], pixelCount)>>,
                   colorCount |-> pixelCount]
    /\ apc' = "done"
    /\ UNCHANGED <<files, fileIdx, totals, pixelCount, notProfile>>

ProfileNext == ProfileScan \/ ProfileAverage

\* the template images on disk, nothing read yet
ProfileInit ==
    /\ files \in SeqsUpTo(TemplateImages, MaxImages)
    /\ fileIdx = 0
    /\ totals = <<0, 0, 0>>
    /\ pixelCount = 0
    /\ profile = "none"
    /\ apc = "scan"
    /\ pxIn = <<>> /\ px = <<>> /\ ppc = "off"
    /\ photo = NoImage /\ image = NoImage /\ outline = NoImage /\ ipc = "off"
    /\ srcW = 0 /\ srcH = 0 /\ crop = NoCrop /\ thumb = <<0, 0>> /\ tpc = "off"
    /\ clock = 0 /\ templates = <<>> /\ written = {} /\ req = <<>>

SpecProfile == ProfileInit /\ [][ProfileNext]_vars

--------------------------------------------------------------------------
(* createThumbnail, the steps *)

\* line 220
ThumbRead ==
    /\ tpc = "read"
    /\ thumb' = <<srcW, srcH>>
    /\ tpc' = "crop"
    /\ UNCHANGED <<srcW, srcH, crop, notThumb>>

\* lines 223-228: size, x and y as computed, handed to crop(x, y, size, size)
ThumbCrop ==
    /\ tpc = "crop"
    /\ LET size == Min(thumb[1], thumb[2])
       IN  /\ crop' = [x |-> Half(thumb[1] - size), y |-> Half(thumb[2] - size),
                       w |-> size, h |-> size]
           /\ thumb' = <<size, size>>
    /\ tpc' = "resize"
    /\ UNCHANGED <<srcW, srcH, notThumb>>

\* line 229
ThumbResize ==
    /\ tpc = "resize"
    /\ thumb' = <<ThumbSize, ThumbSize>>
    /\ tpc' = "write"
    /\ UNCHANGED <<srcW, srcH, crop, notThumb>>

\* lines 230-233
ThumbWrite ==
    /\ tpc = "write"
    /\ tpc' = "done"
    /\ UNCHANGED <<srcW, srcH, crop, thumb, notThumb>>

ThumbNext == ThumbRead \/ ThumbCrop \/ ThumbResize \/ ThumbWrite

\* the first template image on disk, nothing read yet
ThumbInit ==
    /\ srcW \in 1 .. MaxSrcW
    /\ srcH \in 1 .. MaxSrcH
    /\ crop = NoCrop
    /\ thumb = <<0, 0>>
    /\ tpc = "read"
    /\ pxIn = <<>> /\ px = <<>> /\ ppc = "off"
    /\ photo = NoImage /\ image = NoImage /\ outline = NoImage /\ ipc = "off"
    /\ files = <<>> /\ fileIdx = 0 /\ totals = <<0, 0, 0>> /\ pixelCount = 0 /\ profile = "none" /\ apc = "off"
    /\ clock = 0 /\ templates = <<>> /\ written = {} /\ req = <<>>

SpecThumb == ThumbInit /\ [][ThumbNext]_vars

--------------------------------------------------------------------------
(* The other specifications *)

PixelNext == Boost \/ Posterize

\* a pixel as the scan callback finds it
PixelInit ==
    /\ pxIn \in Levels \X Levels \X Levels \X Alphas
    /\ px = pxIn
    /\ ppc = "boost"
    /\ photo = NoImage /\ image = NoImage /\ outline = NoImage /\ ipc = "off"
    /\ files = <<>> /\ fileIdx = 0 /\ totals = <<0, 0, 0>> /\ pixelCount = 0 /\ profile = "none" /\ apc = "off"
    /\ srcW = 0 /\ srcH = 0 /\ crop = NoCrop /\ thumb = <<0, 0>> /\ tpc = "off"
    /\ clock = 0 /\ templates = <<>> /\ written = {} /\ req = <<>>

SpecPixel == PixelInit /\ [][PixelNext]_vars

OutlineNext == OutlineRead \/ OutlineScan \/ OutlineWrite

\* the photograph on disk, nothing read yet
OutlineInit ==
    /\ \E w \in 1 .. MaxW, h \in 1 .. MaxH, bg \in Palette, fg \in Palette :
          \E spots \in SubsetsUpTo(Coords(w, h), MaxSpots) :
              photo = Photo(w, h, spots, bg, fg)
    /\ image = NoImage
    /\ outline = NoImage
    /\ ipc = "read"
    /\ pxIn = <<>> /\ px = <<>> /\ ppc = "off"
    /\ files = <<>> /\ fileIdx = 0 /\ totals = <<0, 0, 0>> /\ pixelCount = 0 /\ profile = "none" /\ apc = "off"
    /\ srcW = 0 /\ srcH = 0 /\ crop = NoCrop /\ thumb = <<0, 0>> /\ tpc = "off"
    /\ clock = 0 /\ templates = <<>> /\ written = {} /\ req = <<>>

SpecOutline == OutlineInit /\ [][OutlineNext]_vars

ColoredNext ==
    ColoredRead \/ ColoredStylize \/ ColoredDetect \/ ColoredComposite \/ ColoredWrite

\* the photograph on disk, nothing read yet
ColoredInit ==
    /\ \E w \in 1 .. MaxW, h \in 1 .. MaxH, bg \in Palette, fg \in Palette :
          \E spots \in SubsetsUpTo(Coords(w, h), MaxSpots) :
              photo = Photo(w, h, spots, bg, fg)
    /\ image = NoImage
    /\ outline = NoImage
    /\ ipc = "read"
    /\ pxIn = <<>> /\ px = <<>> /\ ppc = "off"
    /\ files = <<>> /\ fileIdx = 0 /\ totals = <<0, 0, 0>> /\ pixelCount = 0 /\ profile = "none" /\ apc = "off"
    /\ srcW = 0 /\ srcH = 0 /\ crop = NoCrop /\ thumb = <<0, 0>> /\ tpc = "off"
    /\ clock = 0 /\ templates = <<>> /\ written = {} /\ req = <<>>

SpecColored == ColoredInit /\ [][ColoredNext]_vars

--------------------------------------------------------------------------
(* Properties *)

\* The sum of the absolute R, G, B differences of the pixels of img at p and q.
ColourDistance(img, p, q) ==
    LET a == img.data[p]
        b == img.data[q]
    IN  Abs(a[1] - b[1]) + Abs(a[2] - b[2]) + Abs(a[3] - b[3])

Interior(img, p) == 0 < p[1] /\ p[1] < img.w - 1 /\ 0 < p[2] /\ p[2] < img.h - 1

\* The edge rule of the specification, on the values of img.
EdgeRule(img, p) ==
    /\ Interior(img, p)
    /\ \/ ColourDistance(img, <<p[1] - 1, p[2]>>, <<p[1] + 1, p[2]>>) > 100
       \/ ColourDistance(img, <<p[1], p[2] - 1>>, <<p[1], p[2] + 1>>) > 100

\* C1 as stated: in the colored branch the overlay is black at an interior pixel
\* exactly when the edge rule holds of the unstylized photograph.
C1_EdgesFromOriginal ==
    ipc = "composite" =>
        \A p \in Coords(photo.w, photo.h) :
            Interior(photo, p) => (outline.data[p] = Black <=> EdgeRule(photo, p))

\* C1 amended: in the colored branch the overlay is black at a pixel exactly
\* when the edge rule holds of the buffer the Stylizer scan has rewritten
\* (every pixel of it the stylized value of the photograph's pixel), and it is
\* transparent everywhere else.
C1_EdgesFromStylized ==
    ipc = "composite" =>
        /\ outline.w = photo.w /\ outline.h = photo.h
        /\ \A p \in Coords(photo.w, photo.h) :
              /\ image.data[p][1] = PosterizeChannel(BoostChannel(photo.data[p][1], photo.data[p]))
              /\ image.data[p][2] = PosterizeChannel(BoostChannel(photo.data[p][2], photo.data[p]))
              /\ image.data[p][3] = PosterizeChannel(BoostChannel(photo.data[p][3], photo.data[p]))
              /\ outline.data[p] = IF EdgeRule(image, p) THEN Black ELSE Transparent

\* An overlay pixel is black where the unstylized photograph has no edge, in
\* a photograph of the two greys 111 and 144 (no byte of which wraps around).
C1_Witness ==
    /\ ipc = "composite"
    /\ \A q \in Coords(photo.w, photo.h) : photo.data[q][1] \in {111, 144}
    /\ \E p \in Coords(photo.w, photo.h) : outline.data[p] = Black /\ ~EdgeRule(photo, p)

\* C2 as stated: each posterized byte is clamp(round(v/32)*32, 0, 255) of the
\* boosted byte v, so a boosted byte of 240 or more gives 255.
C2_PosterizeClamped ==
    ppc = "done" =>
        \A i \in 1 .. 3 :
            LET v == BoostPixel(pxIn)[i]
            IN  /\ px[i] = Clamp(((v + 16) \div 32) * 32, 0, 255)
                /\ (v >= 240 => px[i] = 255)

\* C3 as stated: each boosted byte is clamp(c + (c - avg)/2, 0, 255) truncated
\* to an integer, 0 for a negative value and 255 above 255; alpha is unchanged.
C3_BoostClamped ==
    ppc = "posterize" =>
        /\ \A i \in 1 .. 3 :
              px[i] = Clamp(TruncDiv(9 * pxIn[i] - (pxIn[1] + pxIn[2] + pxIn[3]), 6), 0, 255)
        /\ px[4] = pxIn[4]

\* the 5x5 white image with one black pixel at (2,2)
Scenario5x5 == Photo(5, 5, {<<2, 2>>}, White, Black)

\* C4: the outline has the size of the photograph; a pixel of it is black
\* exactly when it is interior and the edge rule holds of the photograph, and
\* white otherwise.  A uniform photograph gives no black pixel, and the 5x5
\* scenario gives black exactly at (1,2), (3,2), (2,1) and (2,3).
C4_OutlineEdges ==
    ipc \in {"write", "done"} =>
        /\ outline.w = photo.w /\ outline.h = photo.h
        /\ \A p \in Coords(photo.w, photo.h) :
              outline.data[p] = IF EdgeRule(photo, p) THEN Black ELSE White
        /\ (\A p, q \in Coords(photo.w, photo.h) : photo.data[p] = photo.data[q]) =>
              \A p \in Coords(photo.w, photo.h) : outline.data[p] = White
        /\ photo = Scenario5x5 =>
              {p \in Coords(5, 5) : outline.data[p] = Black}
                  = {<<1, 2>>, <<3, 2>>, <<2, 1>>, <<2, 3>>}

\* The 5x5 scenario has been scanned and (1,2) is black.
C4_Witness ==
    /\ ipc = "done"
    /\ photo = Scenario5x5
    /\ outline.data[<<1, 2>>] = Black

RECURSIVE PixelsOf(_)
\* the sum of width * height over a sequence of images
PixelsOf(imgs) ==
    IF imgs = <<>> THEN 0 ELSE imgs[1].w * imgs[1].h + PixelsOf(Tail(imgs))

RECURSIVE ChannelTotal(_, _)
\* the sum of channel i over every pixel of a sequence of images
ChannelTotal(imgs, i) ==
    IF imgs = <<>> THEN 0
    ELSE SumOver(imgs[1], Coords(imgs[1].w, imgs[1].h), i) + ChannelTotal(Tail(imgs), i)

\* n is total/count rounded to the nearest integer, halves upward
IsRounded(n, total, count) ==
    (2 * n - 1) * count <= 2 * total /\ 2 * total < (2 * n + 1) * count

\* C5: for a non-empty sequence of images, colorCount is the sum of
\* width * height and each channel of dominantColor is round(sum / count) over
\* all pixels of all images; images all of one colour C give dominantColor = C.
C5_Profile ==
    (apc = "done" /\ files # <<>>) =>
        /\ profile.colorCount = PixelsOf(files)
        /\ \A i \in 1 .. 3 :
              IsRounded(profile.dominantColor[i], ChannelTotal(files, i), PixelsOf(files))
        /\ \A c \in TemplatePalette :
              (\A k \in 1 .. Len(files) : \A p \in Coords(files[k].w, files[k].h) :
                    files[k].data[p] = c)
              => profile.dominantColor = <<c[1], c[2], c[3]>>

\* Two 1x1 images of the two colours: every channel mean ends in .5 and is
\* rounded upward.
C5_Witness ==
    /\ apc = "done"
    /\ Len(files) = 2
    /\ profile.colorCount = 2
    /\ profile.dominantColor = <<11, 22, 128>>

C7_CropFloor ==
    LET side == Min(srcW, srcH)
    IN  /\ tpc \in {"resize", "write", "done"} =>
              /\ crop.w = side /\ crop.h = side
              /\ crop.x.num = crop.x.den * ((srcW - side) \div 2)
              /\ crop.y.num = crop.y.den * ((srcH - side) \div 2)
              /\ crop.x.num + crop.x.den * side <= crop.x.den * srcW
              /\ crop.y.num + crop.y.den * side <= crop.y.den * srcH
        /\ tpc = "done" => thumb = <<200, 200>>

\* C8 as stated: a conversion with both flags whose outline branch failed in
\* its write (the photograph decodes) has still run its colored branch.
C8_BranchesIndependent ==
    \A r \in Reqs :
        ( /\ req[r].kind = "convert" /\ req[r].pc = "done"
          /\ req[r].go /\ req[r].gc
          /\ req[r].outlineFail = "write" )
        => req[r].coloredRan

C10_UniqueNames ==
    /\ \A a, b \in written : (a[1] = b[1] /\ a[2] = b[2]) => a[3] = b[3]
    /\ \A i, j \in 1 .. Len(templates) : templates[i]._id = templates[j]._id => i = j

==========================================================================
